---- MODULE Spec2Model ----
(***************************************************************************)
(* The WHAM solver of src/src/lib.rs: the drive loop of run(), the two     *)
(* WHAM equations, the convergence test and the free-energy derivation.    *)
(*                                                                         *)
(* f64 is modelled as a reduced-width number: a finite value is an integer *)
(* count of 1/Scale units with |raw| <= MaxRaw, and NaN, +Inf and -Inf are *)
(* values of their own.  Arithmetic follows IEEE 754: overflow gives an    *)
(* infinity, underflow gives 0, x/0 is an infinity, 0/0, Inf-Inf, Inf*0    *)
(* and ln of a negative number are NaN, and every comparison with NaN is   *)
(* false.  The sign of zero is not modelled.  ln and exp are the           *)
(* piecewise-linear base-2 approximations Ln and Exp below.                *)
(***************************************************************************)
EXTENDS Integers, Sequences, FiniteSets

\* ------------------------------------------------------------------ f64

\* resolution of a finite value: raw / Scale
Scale == 256
\* largest finite raw value (f64::MAX); beyond it a result is an infinity
MaxRaw == 32767
\* ln(2) in raw units
Ln2Raw == 177

NaN == [k |-> "nan", v |-> 0]
PInf == [k |-> "inf", v |-> 1]
NInf == [k |-> "inf", v |-> -1]

\* Op(x) and Op(x, y) with each operand evaluated once
Strict1(Op(_), x) == CHOOSE r \in {Op(a) : a \in {x}} : TRUE
Strict2(Op(_, _), x, y) == CHOOSE r \in {Op(a, b) : a \in {x}, b \in {y}} : TRUE

\* the finite value raw/Scale, or the infinity it overflows to
Fin(raw) ==
  Strict1(LAMBDA n : IF n > MaxRaw THEN PInf
                     ELSE IF n < -MaxRaw THEN NInf
                     ELSE [k |-> "fin", v |-> n], raw)

\* the literal n/d
Num(n, d) == Fin((n * Scale) \div d)

F64_MAX == Fin(MaxRaw)
Zero == Fin(0)
One == Fin(Scale)

IsNaN(a) == a.k = "nan"
IsFinite(a) == a.k = "fin"
Sign(a) == Strict1(LAMBDA n : IF n > 0 THEN 1 ELSE IF n < 0 THEN -1 ELSE 0, a.v)

AbsInt(x) == Strict1(LAMBDA n : IF n < 0 THEN -n ELSE n, x)
\* integer division rounding toward zero, for any sign of x and y # 0
TDiv(x, y) ==
  Strict2(LAMBDA n, d : IF (n < 0) = (d < 0) THEN AbsInt(n) \div AbsInt(d)
                        ELSE -(AbsInt(n) \div AbsInt(d)), x, y)

Neg(x) == Strict1(LAMBDA a : IF IsNaN(a) THEN NaN ELSE [a EXCEPT !.v = -a.v], x)

Add(x, y) ==
  Strict2(LAMBDA a, b :
            IF IsNaN(a) \/ IsNaN(b) THEN NaN
            ELSE IF ~IsFinite(a)
              THEN (IF ~IsFinite(b) /\ a # b THEN NaN ELSE a)
            ELSE IF ~IsFinite(b) THEN b
            ELSE Fin(a.v + b.v), x, y)

Sub(a, b) == Add(a, Neg(b))

Mul(x, y) ==
  Strict2(LAMBDA a, b :
            IF IsNaN(a) \/ IsNaN(b) THEN NaN
            ELSE IF ~IsFinite(a) \/ ~IsFinite(b)
              THEN (IF Sign(a) * Sign(b) = 0 THEN NaN
                    ELSE IF Sign(a) * Sign(b) > 0 THEN PInf ELSE NInf)
            ELSE Fin(TDiv(a.v * b.v, Scale)), x, y)

Div(x, y) ==
  Strict2(LAMBDA a, b :
            IF IsNaN(a) \/ IsNaN(b) THEN NaN
            ELSE IF ~IsFinite(a)
              THEN (IF ~IsFinite(b) THEN NaN
                    ELSE IF b.v >= 0 THEN a ELSE Neg(a))
            ELSE IF ~IsFinite(b) THEN Zero
            ELSE IF b.v = 0
              THEN (IF a.v = 0 THEN NaN ELSE IF a.v > 0 THEN PInf ELSE NInf)
            ELSE Fin(TDiv(a.v * Scale, b.v)), x, y)

Abs(x) ==
  Strict1(LAMBDA a : IF IsNaN(a) THEN NaN
                     ELSE IF ~IsFinite(a) THEN PInf
                     ELSE Fin(AbsInt(a.v)), x)

\* x > y; false when either side is NaN
Gt(x, y) ==
  Strict2(LAMBDA a, b :
            IF IsNaN(a) \/ IsNaN(b) THEN FALSE
            ELSE IF a = b THEN FALSE
            ELSE IF a = PInf \/ b = NInf THEN TRUE
            ELSE IF a = NInf \/ b = PInf THEN FALSE
            ELSE a.v > b.v, x, y)

Lt(a, b) == Gt(b, a)

\* x <= y; false when either side is NaN
Le(x, y) ==
  Strict2(LAMBDA a, b : ~IsNaN(a) /\ ~IsNaN(b) /\ ~Gt(a, b), x, y)

\* log2 of m * 2^e / Scale in raw units, linear between powers of two
RECURSIVE Log2Raw(_, _)
Log2Raw(m, e) ==
  IF m >= 2 * Scale THEN Log2Raw(m \div 2, e + 1)
  ELSE IF m < Scale THEN Log2Raw(m * 2, e - 1)
  ELSE e * Scale + (m - Scale)

Ln(x) ==
  Strict1(LAMBDA a : IF IsNaN(a) \/ a = NInf THEN NaN
                     ELSE IF a = PInf THEN PInf
                     ELSE IF a.v < 0 THEN NaN
                     ELSE IF a.v = 0 THEN NInf
                     ELSE Fin(TDiv(Log2Raw(a.v, 0) * Ln2Raw, Scale)), x)

\* 2^q for the raw exponent q, linear between integer exponents
Exp2Raw(q) ==
  LET i == q \div Scale
      m == Scale + (q - i * Scale)
  IN  IF i >= 0 THEN (IF i > 8 THEN MaxRaw + 1 ELSE m * 2^i)
      ELSE (IF -i > 16 THEN 0 ELSE m \div 2^(-i))

Exp(x) ==
  Strict1(LAMBDA a : IF IsNaN(a) THEN NaN
                     ELSE IF a = PInf THEN PInf
                     ELSE IF a = NInf THEN Zero
                     ELSE Fin(Exp2Raw(TDiv(a.v * Scale, Ln2Raw))), x)

\* ------------------------------------------------------------- Dataset

\* Histogram: num_points and the per-bin counts
Histogram(num_points, bins) == [num_points |-> num_points, bins |-> bins]

\* A one-dimensional, non-cyclic dataset.
Dataset(num_bins, bin_width, hist_min, force_constant, center, kT, hs) ==
  [num_bins |-> num_bins, num_windows |-> Len(hs), bin_width |-> bin_width,
   hist_min |-> hist_min, force_constant |-> force_constant,
   center |-> center, kT |-> kT, histograms |-> hs]

\* coordinate of the centre of a bin
get_coords_for_bin(ds, bin) ==
  Add(ds.hist_min, Mul(Add(Fin(bin * Scale), Num(1, 2)), ds.bin_width))

\* exp(-U/kT) for the harmonic potential U = 0.5 * k * (x - center)^2
calc_bias(ds, bin, window) ==
  LET d == Sub(get_coords_for_bin(ds, bin), ds.center[window + 1])
      U == Mul(Num(1, 2), Mul(ds.force_constant[window + 1], Mul(d, d)))
  IN  Exp(Div(Neg(U), ds.kT))

\* two windows that overlap well
DsOverlap ==
  Dataset(3, One, Zero, <<One, One>>, <<Num(1, 2), Num(5, 2)>>, One,
          <<Histogram(4, <<Num(3, 1), One, Zero>>),
            Histogram(4, <<Zero, One, Num(3, 1)>>)>>)

\* the same windows at twice the temperature
DsWarm ==
  Dataset(3, One, Zero, <<One, One>>, <<Num(1, 2), Num(5, 2)>>, Num(2, 1),
          <<Histogram(4, <<Num(3, 1), One, Zero>>),
            Histogram(4, <<Zero, One, Num(3, 1)>>)>>)

\* two windows side by side, the first sampled in one bin only
DsSkewed ==
  Dataset(3, One, Zero, <<One, One>>, <<Num(1, 2), Num(3, 2)>>, One,
          <<Histogram(4, <<Num(4, 1), Zero, Zero>>),
            Histogram(4, <<Zero, One, Num(3, 1)>>)>>)

\* stiff windows over wide bins: the bias underflows to 0 in bins 1 and 2
DsGap ==
  Dataset(3, Num(2, 1), Zero, <<Num(8, 1), Num(8, 1)>>, <<One, One>>, One,
          <<Histogram(4, <<Num(3, 1), One, Zero>>),
            Histogram(5, <<Num(4, 1), One, Zero>>)>>)

\* one window with a sample outside the histogram range
DsSingle ==
  Dataset(2, One, Zero, <<One>>, <<Num(1, 2)>>, One,
          <<Histogram(6, <<Num(4, 1), One>>)>>)

Datasets == {DsOverlap, DsWarm, DsSkewed, DsGap, DsSingle}

Bins(ds) == 0 .. ds.num_bins - 1
Windows(ds) == 0 .. ds.num_windows - 1

\* ------------------------------------------------------ WHAM equations

\* is_converged: no zipped pair differs by more than tolerance
is_converged(old_F, new_F, tol) ==
  ~ \E w \in DOMAIN new_F \cap DOMAIN old_F :
      Gt(Abs(Sub(new_F[w], old_F[w])), tol)

RECURSIVE BinCount(_, _, _)
\* bin_count after the first n windows
BinCount(ds, bin, n) ==
  IF n = 0 THEN Zero
  ELSE Add(BinCount(ds, bin, n - 1), ds.histograms[n].bins[bin + 1])

RECURSIVE DenomSum(_, _, _, _)
\* denom_sum after the first n windows
DenomSum(ds, bin, Fv, n) ==
  IF n = 0 THEN Zero
  ELSE Add(DenomSum(ds, bin, Fv, n - 1),
           Mul(Mul(Fin(ds.histograms[n].num_points * Scale),
                   calc_bias(ds, bin, n - 1)),
               Fv[n - 1]))

\* first WHAM equation for one bin
calc_bin_probability(bin, ds, Fv) ==
  Div(BinCount(ds, bin, ds.num_windows), DenomSum(ds, bin, Fv, ds.num_windows))

RECURSIVE WeightedSum(_, _, _, _)
\* sum of P[bin] * bias over the first n zipped bins
WeightedSum(ds, window, Pv, n) ==
  IF n = 0 THEN Zero
  ELSE Add(WeightedSum(ds, window, Pv, n - 1),
           Mul(Pv[n - 1], calc_bias(ds, n - 1, window)))

\* second WHAM equation for one window: exp(F/kT)
calc_window_F(window, ds, Pv) ==
  Div(One, WeightedSum(ds, window, Pv, ds.num_bins))

\* -kT * ln(f), the free-energy form of an offset or a probability
ToFreeEnergy(ds, f) == Mul(Neg(ds.kT), Ln(f))

RECURSIVE SumSeq(_, _)
\* sum of the first n entries of Pv
SumSeq(Pv, n) == IF n = 0 THEN Zero ELSE Add(SumSeq(Pv, n - 1), Pv[n - 1])

RECURSIVE MinimumFromZero(_, _)
\* a running minimum that starts at 0.0
MinimumFromZero(fe, n) ==
  IF n = 0 THEN Zero
  ELSE LET m == MinimumFromZero(fe, n - 1)
       IN  IF Lt(fe[n - 1], m) THEN fe[n - 1] ELSE m

RECURSIVE Minimum(_, _)
\* the running minimum of calc_free_energy after the first n entries
Minimum(fe, n) ==
  IF n = 0 THEN F64_MAX
  ELSE LET m == Minimum(fe, n - 1)
       IN  IF Lt(fe[n - 1], m) THEN fe[n - 1] ELSE m

\* calc_free_energy: -kT ln(P) shifted by its minimum
calc_free_energy(ds, Pv) ==
  LET fe == [b \in DOMAIN Pv |-> ToFreeEnergy(ds, Pv[b])]
      minimum == Minimum(fe, Cardinality(DOMAIN Pv))
  IN  [b \in DOMAIN Pv |-> Sub(fe[b], minimum)]

\* ------------------------------------------------------------- run()

\* largest max_iterations of the model
MaxIterations == 21

\* cfg.tolerance values of the model: 0, 2/256 and 8/256
Tolerances == {Zero, Fin(2), Fin(8)}

VARIABLES
  histograms,      \* the Dataset read by io::read_data
  tolerance,       \* cfg.tolerance
  max_iterations,  \* cfg.max_iterations
  P, F, F_prev, F_tmp,
  iteration, converged,
  bin, window,     \* loop indices of perform_wham_iteration
  free_energy,
  pc,              \* position in run()
  calls,           \* number of calls of perform_wham_iteration
  snapshot,        \* F as it was when the last perform_wham_iteration began
  normalized,      \* number of times P was divided by its sum
  computed,        \* number of calls of calc_free_energy
  dumps,           \* the arguments of each dump_state call
  warnings,        \* number of "WHAM not converged" lines printed
  writes,          \* the arguments of each io::write_results call
  result           \* what run() returned

vars == <<histograms, tolerance, max_iterations, P, F, F_prev, F_tmp,
          iteration, converged, bin, window, free_energy, pc, calls,
          snapshot, normalized, computed, dumps, warnings, writes, result>>

cfg == <<histograms, tolerance, max_iterations>>
outputs == <<normalized, computed, dumps, warnings, writes, result>>

\* the vectors and counters of run() before the loop
Allocated ==
  /\ F = [w \in Windows(histograms) |-> One]
  /\ F_prev = [w \in Windows(histograms) |-> NaN]
  /\ F_tmp = [w \in Windows(histograms) |-> NaN]
  /\ iteration = 0
  /\ converged = FALSE
  /\ bin = 0
  /\ window = 0
  /\ free_energy = <<>>
  /\ calls = 0
  /\ snapshot = [w \in Windows(histograms) |-> NaN]
  /\ normalized = 0
  /\ computed = 0
  /\ dumps = <<>>
  /\ warnings = 0
  /\ writes = <<>>
  /\ result = "running"

Init ==
  /\ histograms \in Datasets
  /\ tolerance \in Tolerances
  /\ max_iterations \in 0 .. MaxIterations
  /\ Allocated
  /\ P = [b \in Bins(histograms) |-> NaN]
  /\ pc = "while"

\* a loop with the condition "iteration <= max_iterations"
LoopConditionInclusive(conv, it, max) == ~conv /\ it <= max

\* the condition of the while loop
LoopCondition(conv, it, max) == ~conv /\ it < max

\* a bin loop that stops one bin early
LastBinSkipped(ds, b) == b + 2 >= ds.num_bins

\* the bin loop of perform_wham_iteration ends after bin b
LastBin(ds, b) == b + 1 >= ds.num_bins

\* a convergence check on every fifth iteration
CheckDueEveryFifth(it) == it % 5 = 0

\* the convergence check is due on every tenth iteration
CheckDue(it) == it % 10 = 0

\* a check that leaves the free-energy form in F
NotRestored(saved, free) == free

\* F after the check: the copy saved in F_tmp, not the free-energy form
Restored(saved, free) == saved

\* while !converged && iteration < max_iterations: enter the body,
\* count the iteration and store F in F_prev
LoopEnter ==
  /\ pc = "while"
  /\ LoopCondition(converged, iteration, max_iterations)
  /\ iteration' = iteration + 1
  /\ F_prev' = F
  /\ snapshot' = F
  /\ calls' = calls + 1
  /\ bin' = 0
  /\ pc' = "eq1"
  /\ UNCHANGED <<cfg, P, F, F_tmp, converged, window, free_energy, outputs>>

\* perform_wham_iteration, first loop: one bin of the first equation
Eq1Step ==
  /\ pc = "eq1"
  /\ P' = [P EXCEPT ![bin] = calc_bin_probability(bin, histograms, F_prev)]
  /\ bin' = bin + 1
  /\ pc' = IF LastBin(histograms, bin) THEN "eq2" ELSE "eq1"
  /\ window' = IF LastBin(histograms, bin) THEN 0 ELSE window
  /\ UNCHANGED <<cfg, F, F_prev, F_tmp, iteration, converged, free_energy,
                 calls, snapshot, outputs>>

\* perform_wham_iteration, second loop: one window of the second equation
Eq2Step ==
  /\ pc = "eq2"
  /\ F' = [F EXCEPT ![window] = calc_window_F(window, histograms, P)]
  /\ window' = window + 1
  /\ pc' = IF window + 1 < histograms.num_windows THEN "eq2" ELSE "check"
  /\ UNCHANGED <<cfg, P, F_prev, F_tmp, iteration, converged, bin,
                 free_energy, calls, snapshot, outputs>>

\* the convergence check at the end of the loop body
ConvergenceCheck ==
  /\ pc = "check"
  /\ IF CheckDue(iteration)
       THEN LET F_free == [w \in DOMAIN F |-> ToFreeEnergy(histograms, F[w])]
                F_prev_free ==
                  [w \in DOMAIN F_prev |-> ToFreeEnergy(histograms, F_prev[w])]
            IN  /\ F_tmp' = F
                /\ F_prev' = F_prev_free
                /\ converged' = is_converged(F_prev_free, F_free, tolerance)
                /\ F' = Restored(F_tmp', F_free)
       ELSE UNCHANGED <<F, F_prev, F_tmp, converged>>
  /\ pc' = "while"
  /\ UNCHANGED <<cfg, P, iteration, bin, window, free_energy, calls,
                 snapshot, outputs>>

\* the loop condition is false: leave the loop
LoopExit ==
  /\ pc = "while"
  /\ ~LoopCondition(converged, iteration, max_iterations)
  /\ pc' = "normalize"
  /\ UNCHANGED <<cfg, P, F, F_prev, F_tmp, iteration, converged, bin, window,
                 free_energy, calls, snapshot, outputs>>

\* normalize P to sum(P) = 1.0
Normalize ==
  /\ pc = "normalize"
  /\ LET P_sum == SumSeq(P, Cardinality(DOMAIN P))
     IN  P' = [b \in DOMAIN P |-> Div(P[b], P_sum)]
  /\ normalized' = normalized + 1
  /\ pc' = "free_energy"
  /\ UNCHANGED <<cfg, F, F_prev, F_tmp, iteration, converged, bin, window,
                 free_energy, calls, snapshot, computed, dumps, warnings,
                 writes, result>>

CalcFreeEnergy ==
  /\ pc = "free_energy"
  /\ free_energy' = calc_free_energy(histograms, P)
  /\ computed' = computed + 1
  /\ pc' = "dump_state"
  /\ UNCHANGED <<cfg, P, F, F_prev, F_tmp, iteration, converged, bin, window,
                 calls, snapshot, normalized, dumps, warnings, writes, result>>

\* dump_state prints A and P per bin, F and |F - F_prev| per window
DumpState ==
  /\ pc = "dump_state"
  /\ dumps' = Append(dumps, [F |-> F, F_prev |-> F_prev, P |-> P,
                             A |-> free_energy,
                             dF |-> [w \in DOMAIN F |->
                                       Abs(Sub(F[w], F_prev[w]))]])
  /\ pc' = "warn"
  /\ UNCHANGED <<cfg, P, F, F_prev, F_tmp, iteration, converged, bin, window,
                 free_energy, calls, snapshot, normalized, computed, warnings,
                 writes, result>>

\* a run that returns an error when the iteration budget is used up
WarnAndAbort ==
  /\ pc = "warn"
  /\ warnings' = IF iteration = max_iterations THEN warnings + 1 ELSE warnings
  /\ pc' = IF iteration = max_iterations THEN "done" ELSE "write_results"
  /\ result' = IF iteration = max_iterations THEN "Err" ELSE result
  /\ UNCHANGED <<cfg, P, F, F_prev, F_tmp, iteration, converged, bin, window,
                 free_energy, calls, snapshot, normalized, computed, dumps,
                 writes>>

\* if iteration == cfg.max_iterations: print the warning
WarnNotConverged ==
  /\ pc = "warn"
  /\ warnings' = IF iteration = max_iterations THEN warnings + 1 ELSE warnings
  /\ pc' = "write_results"
  /\ UNCHANGED <<cfg, P, F, F_prev, F_tmp, iteration, converged, bin, window,
                 free_energy, calls, snapshot, normalized, computed, dumps,
                 writes, result>>

\* io::write_results(...)?: run() returns its error, or Ok(())
WriteResults ==
  /\ pc = "write_results"
  /\ writes' = Append(writes, [free_energy |-> free_energy, P |-> P])
  /\ \E r \in {"Ok", "Err"} : result' = r
  /\ pc' = "done"
  /\ UNCHANGED <<cfg, P, F, F_prev, F_tmp, iteration, converged, bin, window,
                 free_energy, calls, snapshot, normalized, computed, dumps,
                 warnings>>

Next ==
  \/ LoopEnter
  \/ Eq1Step
  \/ Eq2Step
  \/ ConvergenceCheck
  \/ LoopExit
  \/ Normalize
  \/ CalcFreeEnergy
  \/ DumpState
  \/ WarnNotConverged
  \/ WriteResults

Spec == Init /\ [][Next]_vars

\* run() is sequential code: a step that can be taken is taken
FairSpec == Spec /\ WF_vars(Next)

\* ------------------------------------------- is_converged on its own

\* offsets handed to is_converged: 1.0, 0.95, 0.9, 0.8, NaN and +Inf
OffsetValues ==
  {One, Num(95, 100), Sub(One, Num(1, 10)), Num(8, 10), NaN, PInf}

\* tolerances handed to is_converged: 0.1, 0 and NaN
ConvergedTolerances == {Num(1, 10), Zero, NaN}

InitConverged ==
  /\ histograms = DsOverlap
  /\ tolerance \in ConvergedTolerances
  /\ max_iterations = 0
  /\ Allocated
  /\ P = [b \in Bins(histograms) |-> NaN]
  /\ pc = "is_converged"

\* the caller picks old_F (F_prev) and new_F (F)
ChooseOffsets ==
  /\ pc = "is_converged"
  /\ F_prev' \in [Windows(histograms) -> OffsetValues]
  /\ F' \in [Windows(histograms) -> OffsetValues]
  /\ pc' = "call"
  /\ UNCHANGED <<cfg, P, F_tmp, iteration, converged, bin, window,
                 free_energy, calls, snapshot, outputs>>

\* converged = is_converged(&F_prev, &F, tolerance)
IsConvergedCall ==
  /\ pc = "call"
  /\ converged' = is_converged(F_prev, F, tolerance)
  /\ pc' = "returned"
  /\ UNCHANGED <<cfg, P, F, F_prev, F_tmp, iteration, bin, window,
                 free_energy, calls, snapshot, outputs>>

NextConverged == ChooseOffsets \/ IsConvergedCall

SpecConverged == InitConverged /\ [][NextConverged]_vars

\* --------------------------------------- calc_free_energy on its own

\* probabilities handed to calc_free_energy: 0, 1/4, 1/2, 1, 2, NaN, +Inf
ProbabilityValues ==
  {Zero, Num(1, 4), Num(1, 2), One, Num(2, 1), NaN, PInf}

InitFreeEnergy ==
  /\ histograms \in Datasets
  /\ tolerance = Zero
  /\ max_iterations = 0
  /\ Allocated
  /\ P \in [Bins(histograms) -> ProbabilityValues]
  /\ pc = "free_energy"

NextFreeEnergy == CalcFreeEnergy

SpecFreeEnergy == InitFreeEnergy /\ [][NextFreeEnergy]_vars

\* ------------------------------------------------------------- claims

LoopPcs == {"while", "eq1", "eq2", "check"}
LoopExited == pc \notin LoopPcs

HasNonFinite(v) == \E i \in DOMAIN v : ~IsFinite(v[i])

\* the second equation applied to every window
AllWindowF(ds, Pv) == [w \in Windows(ds) |-> calc_window_F(w, ds, Pv)]

\* C1: converged changes from false to true only in a step whose iteration
\* counter is a multiple of 10, and whenever the loop has exited with
\* converged = true the counter is a positive multiple of 10.
C1_ConvergedOnlyOnTenth ==
  /\ [][(~converged /\ converged') =>
          (iteration % 10 = 0 /\ iteration' = iteration)]_vars
  /\ [](LoopExited /\ converged => iteration > 0 /\ iteration % 10 = 0)

C1_Witness == pc = "normalize" /\ converged /\ iteration = 20

\* C2: the loop terminates, in a state that is converged or has the counter
\* equal to max_iterations; the counter never exceeds max_iterations; and
\* perform_wham_iteration was called as many times as the final counter.
C2_LoopTerminates ==
  /\ <>LoopExited
  /\ [](iteration <= max_iterations)
  /\ [](LoopExited =>
          /\ converged \/ iteration = max_iterations
          /\ calls = iteration)

C2_Witness ==
  /\ pc = "normalize" /\ ~converged
  /\ iteration = max_iterations /\ calls = MaxIterations

\* C3: at the end of every loop step F holds the values the step's
\* perform_wham_iteration wrote (the second equation applied to the step's
\* P), and the F_prev the next step hands to the first equation is that F.
C3_FRestoredAfterCheck ==
  /\ (pc = "while" /\ iteration > 0) => F = AllWindowF(histograms, P)
  /\ (pc = "eq1" /\ bin = 0 /\ iteration > 1) =>
       F_prev = AllWindowF(histograms, P)
  /\ pc = "eq1" => F_prev = snapshot

\* a step that follows a check step, with F unlike its free-energy form
C3_Witness ==
  /\ pc = "eq1" /\ bin = 0 /\ iteration = 11
  /\ F_prev = F_tmp
  /\ F_prev # [w \in DOMAIN F_prev |-> ToFreeEnergy(histograms, F_prev[w])]

\* C4: is_converged returns true iff every per-window absolute difference
\* is <= the tolerance.
C4_ConvergedIffAllWithin ==
  pc = "returned" =>
    (converged <=>
       \A w \in Windows(histograms) :
         Le(Abs(Sub(F[w], F_prev[w])), tolerance))

\* C5: a non-finite value in F or P stops the loop: no further iteration
\* starts from it and the run does not end converged with it.
C5_NonFiniteAborts ==
  /\ ~(pc = "eq1" /\ iteration > 1 /\ HasNonFinite(F_prev))
  /\ ~(converged /\ (HasNonFinite(F) \/ HasNonFinite(P)))

\* C6: the non-convergence warning is printed iff the loop ended with
\* converged = false.
C6_WarningIffNotConverged ==
  pc = "done" => ((warnings = 1) <=> ~converged)

\* C7: after at least one iteration, the F_prev handed to dump_state is F
\* as it was before the last perform_wham_iteration.
C7_DumpedFPrevIsSnapshot ==
  (Len(dumps) = 1 /\ iteration > 0) => dumps[1].F_prev = snapshot

\* C8: nothing is normalized, computed, dumped or written while the loop
\* runs; every run reaches the end of run(), and there P was normalized
\* once, the free energy computed once, and dump_state and write_results
\* called once each with the final P and free energy.
C8_OutputAlwaysGenerated ==
  /\ [](~LoopExited =>
          normalized = 0 /\ computed = 0 /\ dumps = <<>> /\ writes = <<>>)
  /\ [](pc = "done" =>
          /\ normalized = 1 /\ computed = 1
          /\ Len(dumps) = 1 /\ Len(writes) = 1
          /\ dumps[1].P = P /\ dumps[1].A = free_energy /\ dumps[1].F = F
          /\ writes[1] = [free_energy |-> free_energy, P |-> P])
  /\ <>(pc = "done")

C8_Witness ==
  /\ pc = "done" /\ ~converged /\ iteration > 0 /\ warnings = 1
  /\ Len(dumps) = 1 /\ Len(writes) = 1

\* C9: while the second equation runs, every entry of P is the first
\* equation's value for F_prev in this pass, and F_prev is the vector the
\* call was given from its start to its end.
C9_Equation1BeforeEquation2 ==
  /\ pc = "eq2" =>
       \A b \in Bins(histograms) :
         P[b] = calc_bin_probability(b, histograms, F_prev)
  /\ pc \in {"eq1", "eq2", "check"} => F_prev = snapshot
  /\ pc = "check" => F = AllWindowF(histograms, P)

\* the second pass, part way through the window loop, with a changed P
C9_Witness ==
  /\ pc = "eq2" /\ window = 1 /\ iteration = 2
  /\ \A b \in Bins(histograms) : IsFinite(P[b])
  /\ P # [b \in Bins(histograms) |->
            calc_bin_probability(b, histograms,
                                 [w \in Windows(histograms) |-> One])]

\* the least entry of a vector of numbers is 0
MinimumIsZero(fe) ==
  /\ \E b \in DOMAIN fe : fe[b] = Zero
  /\ \A b \in DOMAIN fe : Le(Zero, fe[b])

\* every entry is finite and >= 0, and one of them is > 0
Sampled(Pv) ==
  /\ \A b \in DOMAIN Pv : IsFinite(Pv[b]) /\ Le(Zero, Pv[b])
  /\ \E b \in DOMAIN Pv : Gt(Pv[b], Zero)

\* C10 as stated: for every P the minimum of calc_free_energy(P) is 0.
C10_MinimumZeroForEveryP ==
  pc = "dump_state" => MinimumIsZero(free_energy)

\* C10 amended: for every P whose entries are finite and >= 0 with one of
\* them > 0, calc_free_energy(P) is -kT ln(P[bin]) shifted by its minimum,
\* its minimum is 0, and the bins with P[bin] = 0 are +Inf.
C10_MinimumZeroForSampledP ==
  (pc = "dump_state" /\ Sampled(P)) =>
    /\ MinimumIsZero(free_energy)
    /\ \A b \in DOMAIN P : P[b] = Zero => free_energy[b] = PInf
    /\ \E m \in {ToFreeEnergy(histograms, P[b]) : b \in DOMAIN P} :
         /\ IsFinite(m)
         /\ \A b \in DOMAIN P : Le(m, ToFreeEnergy(histograms, P[b]))
         /\ \A b \in DOMAIN P :
              free_energy[b] = Sub(ToFreeEnergy(histograms, P[b]), m)

C10_Witness ==
  /\ pc = "dump_state" /\ Sampled(P)
  /\ \E b \in DOMAIN P : P[b] = Zero /\ free_energy[b] = PInf
  /\ \E b \in DOMAIN P : Gt(free_energy[b], Zero) /\ IsFinite(free_energy[b])
  /\ \E b \in DOMAIN P : free_energy[b] = Zero

====
